---- MODULE Spec2Model ----
(***************************************************************************)
(* Model of sygscripts/claims_processor.py: the batch claims run           *)
(* process_claims_csv, the remote client functions it calls and the pool   *)
(* pressure check.  One TLA+ step is one statement group of the run: one   *)
(* pressure check, one pause, one record of a phase sweep, one flush.      *)
(***************************************************************************)
EXTENDS Integers, Sequences, FiniteSets, TLC

(***************************************************************************)
(* Bounds of the model.                                                    *)
(***************************************************************************)
MaxRows == 3

MaxBatch == 2

\* rows of the input, and starts of the program, where a run may be killed
MaxCrashRows == 2

MaxRuns == 2

(***************************************************************************)
(* Python values.  A CSV field is a sequence of characters, so that        *)
(* str.strip() is computed and not assumed.                                *)
(***************************************************************************)
\* Optional[...]: None, or a value
None == [none |-> TRUE]

Some(v) == [none |-> FALSE, val |-> v]

IsSpace(c) == c = " "

RECURSIVE LStrip(_)
LStrip(s) == IF s # <<>> /\ IsSpace(Head(s)) THEN LStrip(Tail(s)) ELSE s

RECURSIVE RStrip(_)
RStrip(s) ==
    IF s # <<>> /\ IsSpace(s[Len(s)]) THEN RStrip(SubSeq(s, 1, Len(s) - 1)) ELSE s

Strip(s) == RStrip(LStrip(s))

\* dict.get(key): None when the key is absent
Get(d, k) == IF k \in DOMAIN d THEN d[k] ELSE None

\* d[key] = value
Put(d, k, v) == [x \in DOMAIN d \cup {k} |-> IF x = k THEN v ELSE d[x]]

EmptyDict == <<>>

(***************************************************************************)
(* The record source: rows of the input CSV.                               *)
(***************************************************************************)
Row(id, name, chain, amount) ==
    [id |-> id, name |-> name, chain |-> chain, amount |-> amount]

RowUniverse ==
    { Row(<<"A">>, <<"n", "1">>, <<"c", "1">>, <<"5">>),
      Row(<<" ", "A">>, <<"n", "2">>, <<"c", "2", " ">>, <<"6">>),
      Row(<<"B", " ">>, <<" ", "n", "3">>, <<"c", "1">>, <<" ", "7">>),
      Row(<<"A">>, <<"n", "4">>, <<" ">>, <<"8">>) }

RECURSIVE SeqsUpTo(_, _)
SeqsUpTo(S, n) ==
    IF n = 0 THEN {<<>>}
    ELSE LET shorter == SeqsUpTo(S, n - 1)
         IN  shorter \cup {Append(s, x) : s \in {t \in shorter : Len(t) = n - 1}, x \in S}

AccountId(row) == Strip(row.id)

AssetId(row) == Strip(row.chain)

\* IsValidRow with the asset id not looked at
IsValidRowByAccountId(row) == AccountId(row) # <<>>

\* "if not vault_account_id or not blockchain" is false
IsValidRow(row) == AccountId(row) # <<>> /\ AssetId(row) # <<>>

\* the request key of the remote endpoints /api/check and /api/claims
Key(row) == <<AccountId(row), AssetId(row)>>

Keys == {Key(r) : r \in {x \in RowUniverse : IsValidRow(x)}}

(***************************************************************************)
(* The remote service: what one HTTP exchange can give the client.  A     *)
(* body is the text of the response: no JSON at all, or a JSON value.      *)
(***************************************************************************)
TransportFailures == {[kind |-> "URLError"], [kind |-> "timeout"]}

\* an error status; utf8: whether the bytes of its body decode as UTF-8
HttpErrors ==
    {[kind |-> "HTTPError", status |-> 500, utf8 |-> TRUE],
     [kind |-> "HTTPError", status |-> 500, utf8 |-> FALSE]}

\* "except urllib.error.HTTPError as e: print(... e.read().decode('utf-8'))":
\* the decode raises UnicodeDecodeError inside the handler, which no later
\* except clause of the same try statement catches
HandlerRaises(resp) == resp.kind = "HTTPError" /\ ~resp.utf8

Reply(status, body) == [kind |-> "response", status |-> status, body |-> body]

BadJson == [t |-> "bad"]

JNull == [t |-> "null"]

JNum(n) == [t |-> "num", n |-> n]

JArr(items) == [t |-> "arr", items |-> items]

\* a JSON object: its field names, and the value of "value" where it has one
JObj(fields) == [t |-> "obj", fields |-> fields]

JValue(v) == [t |-> "obj", fields |-> {"value"}, value |-> v]

EligibilityBodies ==
    {BadJson, JObj({"message"}), JValue(JNull), JValue(JNum(-1)), JValue(JNum(0)),
     JValue(JNum(2))}

EligibilityResponses ==
    TransportFailures \cup HttpErrors
        \cup {Reply(200, b) : b \in EligibilityBodies} \cup {Reply(204, JValue(JNum(2)))}

Entry == "claim"

\* bodies of GET /api/claims: arrays, and JSON values that are no array
HistoryBodies == {BadJson, JArr(<<>>), JArr(<<Entry>>), JNull, JObj({}), JNum(7)}

HistoryResponses ==
    TransportFailures \cup HttpErrors
        \cup {Reply(200, b) : b \in HistoryBodies} \cup {Reply(204, JArr(<<>>))}

Payload == JObj({"txId"})

EmptyObject == JObj({})

SubmitBodies == {BadJson, Payload, EmptyObject}

SubmitResponses ==
    TransportFailures \cup HttpErrors
        \cup {Reply(200, b) : b \in SubmitBodies} \cup {Reply(204, Payload)}

\* Python truth value of a decoded JSON value
Truthy(v) ==
    CASE v.t = "null" -> FALSE
      [] v.t = "num" -> v.n # 0
      [] v.t = "arr" -> v.items # <<>>
      [] v.t = "obj" -> v.fields # {}

\* len() of a decoded JSON value; a number has none (TypeError)
HasLen(v) == v.t \in {"arr", "obj"}

JLen(v) == IF v.t = "arr" THEN Len(v.items) ELSE Cardinality(v.fields)

(***************************************************************************)
(* The remote client functions, as functions of the exchange's outcome.   *)
(***************************************************************************)
\* check_address_eligibility: Some(claimable value), or None
check_address_eligibility(resp) ==
    IF resp.kind # "response" THEN None
    ELSE IF resp.status # 200 THEN None
    ELSE IF resp.body.t = "bad" THEN None
    ELSE IF "value" \in resp.body.fields /\ resp.body.value.t # "null"
         THEN IF resp.body.value.n > 0 THEN Some(resp.body.value.n) ELSE None
         ELSE None

\* check_claims_history: Some(claims), Some([]) or None
check_claims_history(resp) ==
    IF resp.kind # "response" THEN None
    ELSE IF resp.status # 200 THEN None
    ELSE IF resp.body.t = "bad" THEN None
    ELSE IF Truthy(resp.body)
         THEN IF ~HasLen(resp.body) THEN None
              ELSE IF JLen(resp.body) > 0 THEN Some(resp.body.items) ELSE Some(<<>>)
         ELSE Some(<<>>)

\* make_claim: Some(decoded payload), or None
make_claim(resp) ==
    IF resp.kind # "response" THEN None
    ELSE IF resp.status # 200 THEN None
    ELSE IF resp.body.t = "bad" THEN None
    ELSE Some(resp.body)

(***************************************************************************)
(* Pool pressure: GET /metrics, POST /clear-pool and the pressure check.   *)
(***************************************************************************)
JMetrics(total) ==
    [t |-> "obj", fields |-> {"totalInstances"}, totalInstances |-> total]

MetricsBodies ==
    {BadJson, JObj({}), JObj({"idleInstances"}), JArr(<<1>>), JMetrics(JNull)}
        \cup {JMetrics(JNum(n)) : n \in {2, 3, 99, 100, 119, 120, 159, 160}}

MetricsResponses ==
    TransportFailures \cup HttpErrors
        \cup {Reply(200, b) : b \in MetricsBodies} \cup {Reply(204, JMetrics(JNum(160)))}

ClearBodies == {BadJson, JObj({"message"}), JArr(<<>>)}

ClearResponses ==
    TransportFailures \cup HttpErrors
        \cup {Reply(200, b) : b \in ClearBodies} \cup {Reply(204, JObj({"message"}))}

\* get_pool_metrics: the decoded body, or {} when the call failed
get_pool_metrics(resp) ==
    IF resp.kind # "response" THEN JObj({})
    ELSE IF resp.status # 200 THEN JObj({})
    ELSE IF resp.body.t = "bad" THEN JObj({})
    ELSE resp.body

\* clear_pool: True when the service answered 200 with a JSON object
clear_pool(resp) ==
    IF resp.kind # "response" THEN FALSE
    ELSE IF resp.status # 200 THEN FALSE
    ELSE IF resp.body.t = "bad" THEN FALSE
    ELSE resp.body.t = "obj"

\* what check_and_clear_pool_if_needed gives its caller: the bool it returns
\* or the exception that leaves it, and whether it called clear_pool
Returned(b) == [raised |-> FALSE, value |-> b, cleared |-> FALSE]

Cleared(b) == [raised |-> FALSE, value |-> b, cleared |-> TRUE]

Raised == [raised |-> TRUE, value |-> FALSE, cleared |-> FALSE]

\* Threshold with the quotient rounded up
ThresholdRoundedUp(pool_max_size, threshold_percent) ==
    (pool_max_size * threshold_percent + 99) \div 100

\* int(pool_max_size * threshold_percent / 100.0)
Threshold(pool_max_size, threshold_percent) ==
    (pool_max_size * threshold_percent) \div 100

\* check_and_clear_pool_if_needed with "above the threshold" as the test
check_and_clear_pool_above_threshold(mresp, cresp, pool_max_size, threshold_percent) ==
    LET metrics == get_pool_metrics(mresp)
    IN  IF ~Truthy(metrics) THEN Returned(FALSE)
        ELSE IF metrics.t # "obj" THEN Raised
        ELSE LET total_instances ==
                     IF "totalInstances" \in metrics.fields
                     THEN metrics.totalInstances ELSE JNum(0)
             IN  IF total_instances.t # "num" THEN Raised
                 ELSE IF total_instances.n > Threshold(pool_max_size, threshold_percent)
                      THEN Cleared(clear_pool(cresp))
                      ELSE Returned(FALSE)

\* check_and_clear_pool_if_needed: the bool it returns, or the exception
\* that leaves it (metrics.get on a non-mapping, >= on a non-number)
check_and_clear_pool_if_needed(mresp, cresp, pool_max_size, threshold_percent) ==
    LET metrics == get_pool_metrics(mresp)
    IN  IF ~Truthy(metrics) THEN Returned(FALSE)
        ELSE IF metrics.t # "obj" THEN Raised
        ELSE LET total_instances ==
                     IF "totalInstances" \in metrics.fields
                     THEN metrics.totalInstances ELSE JNum(0)
             IN  IF total_instances.t # "num" THEN Raised
                 ELSE IF total_instances.n >= Threshold(pool_max_size, threshold_percent)
                      THEN Cleared(clear_pool(cresp))
                      ELSE Returned(FALSE)

PoolMaxSize == 200

\* what one pressure check can give, over all answers of /metrics and /clear-pool
PressureOutcomes(threshold_percent) ==
    {check_and_clear_pool_if_needed(mresp, cresp, PoolMaxSize, threshold_percent) :
        mresp \in MetricsResponses, cresp \in ClearResponses}

PressureOutcomes80 == PressureOutcomes(80)

PressureOutcomes60 == PressureOutcomes(60)

PressureOutcomes50 == PressureOutcomes(50)

\* what one call of each client function can return, over all answers of its
\* endpoint that let it return
EligibilityOutcomes ==
    {check_address_eligibility(resp) :
        resp \in {r \in EligibilityResponses : ~HandlerRaises(r)}}

HistoryOutcomes ==
    {check_claims_history(resp) : resp \in {r \in HistoryResponses : ~HandlerRaises(r)}}

ClaimOutcomes ==
    {make_claim(resp) : resp \in {r \in SubmitResponses : ~HandlerRaises(r)}}

\* whether an answer of the endpoint makes the client function raise
EligibilityRaises == \E resp \in EligibilityResponses : HandlerRaises(resp)

HistoryRaises == \E resp \in HistoryResponses : HandlerRaises(resp)

ClaimRaises == \E resp \in SubmitResponses : HandlerRaises(resp)

(***************************************************************************)
(* process_claims_csv.                                                     *)
(***************************************************************************)
VARIABLES
    input_file,              \* rows of the input CSV
    batch_size,              \* the batch_size argument
    max_rows,                \* the max_rows argument, None when it is not given
    all_rows,                \* rows read from the input
    pc,                      \* the statement the run is at
    loop,                    \* 1: the batch loop under the progress bar, 2: the batch loop after it
    i,                       \* index of the batch's first row (0-based)
    j,                       \* position of the sweep in batch_rows (1-based)
    eligibility_results,     \* account id -> claimable value or None
    claims_history_results,  \* account id -> claims or None
    batch_data,              \* result rows of the batch
    batch_processed,
    all_updated_data,        \* result rows of all batches
    output_file,             \* content of the output CSV below its header; None before the first write
    total_processed,
    total_eligible,
    total_already_claimed,
    total_claimed,
    total_unclaimable,
    batch_number,
    remote_eligibility,      \* the service's answer to /api/check per request key, once given
    remote_history,          \* the service's answer to GET /api/claims per request key
    remote_claim,            \* the service's answer to POST /api/claims per request key
    eligibility_calls,       \* per input row: check_address_eligibility calls issued for it
    history_calls,           \* per input row: check_claims_history calls issued for it
    claim_calls,             \* per input row: make_claim calls issued for it
    batches,                 \* the slices all_rows[from:to] the run has started, in order
    steps,                   \* the batch so far: its pressure checks, remote calls and flush, in order
    runs,                    \* how many times the program has been started
    crashed_at,              \* the statement the run was killed at, "" while it is not
    recovery_point,          \* rows of the input covered by the flushed batches of the killed run
    client_call,             \* a client function called on its own: the function and the exchange
    client_result,           \* what that call gave its caller
    total_success,           \* allocation_checker: rows with an allocation above 0
    total_error,             \* allocation_checker: the other rows
    batch_success,
    batch_error,
    check_result             \* what the pressure check of the step just taken returned;
                             \* None when that step was no pressure check

run_vars ==
    <<input_file, batch_size, max_rows, all_rows, pc, loop, i, j>>

batch_vars ==
    <<eligibility_results, claims_history_results, batch_data, batch_processed>>

total_vars ==
    <<all_updated_data, output_file, total_processed, total_eligible,
      total_already_claimed, total_claimed, total_unclaimable, batch_number>>

remote_vars ==
    <<remote_eligibility, remote_history, remote_claim>>

call_vars ==
    <<eligibility_calls, history_calls, claim_calls>>

\* what no statement of process_claims_csv changes
\* the counters of allocation_checker.process_accounts_csv
accounts_vars == <<total_success, total_error, batch_success, batch_error>>

fixed_vars ==
    <<input_file, batch_size, max_rows, runs, crashed_at, recovery_point, client_call,
      client_result, accounts_vars>>

vars ==
    <<run_vars, batch_vars, total_vars, remote_vars, call_vars, batches, steps,
      runs, crashed_at, recovery_point, client_call, client_result, check_result,
      accounts_vars>>

Step(op, arg) == [op |-> op, arg |-> arg]

NoCall == [fn |-> "none"]

NoResult == [raised |-> FALSE, value |-> None]

Min(a, b) == IF a <= b THEN a ELSE b

\* all_rows[i:i + batch_size]
batch_rows == SubSeq(all_rows, i + 1, Min(i + batch_size, Len(all_rows)))

\* the row the sweep is at, and its index in all_rows
row == batch_rows[j]

row_index == i + j

\* the service gives one answer per request key
Answers(memo, key, result) == key \in DOMAIN memo => memo[key] = result

\* the state of a started program, before its first statement
Started ==
    /\ all_rows = <<>>
    /\ pc = "Idle"
    /\ loop = 1
    /\ i = 0
    /\ j = 1
    /\ eligibility_results = EmptyDict
    /\ claims_history_results = EmptyDict
    /\ batch_data = <<>>
    /\ batch_processed = 0
    /\ all_updated_data = <<>>
    /\ output_file = None
    /\ total_processed = 0
    /\ total_eligible = 0
    /\ total_already_claimed = 0
    /\ total_claimed = 0
    /\ total_unclaimable = 0
    /\ batch_number = 1
    /\ remote_eligibility = EmptyDict
    /\ remote_history = EmptyDict
    /\ remote_claim = EmptyDict
    /\ eligibility_calls = <<>>
    /\ history_calls = <<>>
    /\ claim_calls = <<>>
    /\ batches = <<>>
    /\ steps = <<>>
    /\ runs = 1
    /\ crashed_at = ""
    /\ recovery_point = 0
    /\ client_call = NoCall
    /\ client_result = NoResult
    /\ check_result = None
    /\ total_success = 0
    /\ total_error = 0
    /\ batch_success = 0
    /\ batch_error = 0

Init ==
    /\ input_file \in SeqsUpTo(RowUniverse, MaxRows)
    /\ batch_size \in 1..MaxBatch
    /\ max_rows = None
    /\ Started

\* for i in range(0, len(all_rows), batch_size): the statement after the loop
\* head when the loop is entered with `rows`.  range() raises ValueError for
\* a step of 0 and is empty for a negative step
AfterLoopHead(rows) ==
    IF batch_size = 0 THEN "ValueError"
    ELSE IF batch_size > 0 /\ Len(rows) > 0 THEN "Throttle1"
    ELSE "Summary"

\* lines 265-267: "if max_rows: all_rows = all_rows[:max_rows]", for a cap
\* that is None or no less than 0
Limited(rows, cap) ==
    IF cap = None THEN rows
    ELSE IF cap.val = 0 THEN rows
    ELSE SubSeq(rows, 1, Min(cap.val, Len(rows)))

\* lines 258-269: read all rows, then keep the first max_rows of them
ReadRows ==
    /\ pc = "Idle"
    /\ all_rows' = Limited(input_file, max_rows)
    /\ pc' = AfterLoopHead(Limited(input_file, max_rows))
    /\ eligibility_calls' = [n \in 1..Len(input_file) |-> 0]
    /\ history_calls' = [n \in 1..Len(input_file) |-> 0]
    /\ claim_calls' = [n \in 1..Len(input_file) |-> 0]
    /\ check_result' = None
    /\ UNCHANGED <<fixed_vars, steps, loop, i, j, batch_vars, total_vars, remote_vars, batches>>

\* Advance with the sweep left after its first row
AdvanceAfterFirstRow(after) ==
    /\ j' = 1
    /\ pc' = after

\* the sweep moves to the next row, or the batch to the statement after the sweep
Advance(after) ==
    IF j < Len(batch_rows)
    THEN /\ j' = j + 1
         /\ pc' = pc
    ELSE /\ j' = 1
         /\ pc' = after

\* Throttle1 with all_updated_data emptied at batch start, as batch_data is
Throttle1ResetsResults ==
    /\ pc = "Throttle1"
    /\ \E pool_cleared \in PressureOutcomes80 :
              /\ pc' = IF pool_cleared.raised THEN "Aborted"
                       ELSE IF pool_cleared.value THEN "Settle1" ELSE "Phase1"
              /\ check_result' = IF pool_cleared.raised THEN None
                                 ELSE Some(pool_cleared.value)
    /\ batch_data' = <<>>
    /\ all_updated_data' = <<>>
    /\ batch_processed' = 0
    /\ eligibility_results' = EmptyDict
    /\ j' = 1
    /\ batches' = Append(batches, [from |-> i, to |-> Min(i + batch_size, Len(all_rows))])
    /\ steps' = <<Step("pressure", 80)>>
    /\ UNCHANGED <<fixed_vars, all_rows, loop, i, claims_history_results,
                   output_file, total_processed, total_eligible, total_already_claimed,
                   total_claimed, total_unclaimable, batch_number, remote_vars, call_vars>>

\* lines 276-291, 466-481: batch start, pressure check at 80%
Throttle1 ==
    /\ pc = "Throttle1"
    /\ \E pool_cleared \in PressureOutcomes80 :
              /\ pc' = IF pool_cleared.raised THEN "Aborted"
                       ELSE IF pool_cleared.value THEN "Settle1" ELSE "Phase1"
              /\ check_result' = IF pool_cleared.raised THEN None
                                 ELSE Some(pool_cleared.value)
    /\ batch_data' = <<>>
    /\ batch_processed' = 0
    /\ eligibility_results' = EmptyDict
    /\ j' = 1
    /\ batches' = Append(batches, [from |-> i, to |-> Min(i + batch_size, Len(all_rows))])
    /\ steps' = <<Step("pressure", 80)>>
    /\ UNCHANGED <<fixed_vars, all_rows, loop, i, claims_history_results,
                   total_vars, remote_vars, call_vars>>

\* lines 283-285, 473-475: time.sleep(2) after a clear
Settle1 ==
    /\ pc = "Settle1"
    /\ pc' = "Phase1"
    /\ check_result' = None
    /\ UNCHANGED <<fixed_vars, steps, all_rows, loop, i, j, batch_vars, total_vars,
                   remote_vars, call_vars, batches>>

\* lines 297-304, 486-492: phase 1, a row with no account id or no asset id
Phase1Skip ==
    /\ pc = "Phase1"
    /\ ~IsValidRow(row)
    /\ eligibility_results' = Put(eligibility_results, AccountId(row), None)
    /\ Advance("Throttle2")
    /\ check_result' = None
    /\ UNCHANGED <<fixed_vars, steps, all_rows, loop, i, claims_history_results,
                   batch_data, batch_processed, total_vars, remote_vars, call_vars, batches>>

\* lines 306-311, 494-498: phase 1, the eligibility check of a row
Phase1Check ==
    /\ pc = "Phase1"
    /\ IsValidRow(row)
    /\ \E claimable_value \in EligibilityOutcomes :
              /\ Answers(remote_eligibility, Key(row), claimable_value)
              /\ remote_eligibility' = Put(remote_eligibility, Key(row), claimable_value)
              /\ eligibility_results' =
                     Put(eligibility_results, AccountId(row), claimable_value)
    /\ eligibility_calls' = [eligibility_calls EXCEPT ![row_index] = @ + 1]
    /\ Advance("Throttle2")
    /\ steps' = Append(steps, Step("eligibility", row_index))
    /\ check_result' = None
    /\ UNCHANGED <<fixed_vars, all_rows, loop, i, claims_history_results,
                   batch_data, batch_processed, total_vars, remote_history, remote_claim,
                   history_calls, claim_calls, batches>>

\* lines 306, 494: check_address_eligibility raises; nothing in
\* process_claims_csv catches it
Phase1Raise ==
    /\ pc = "Phase1"
    /\ IsValidRow(row)
    /\ Key(row) \notin DOMAIN remote_eligibility
    /\ EligibilityRaises
    /\ pc' = "Aborted"
    /\ eligibility_calls' = [eligibility_calls EXCEPT ![row_index] = @ + 1]
    /\ steps' = Append(steps, Step("eligibility", row_index))
    /\ check_result' = None
    /\ UNCHANGED <<fixed_vars, all_rows, loop, i, j, batch_vars, total_vars, remote_vars,
                   history_calls, claim_calls, batches>>

\* Throttle2 with time.sleep(1) under `if cleared:`, as the pause at batch start is
Throttle2PauseAfterClear ==
    /\ pc = "Throttle2"
    /\ \E cleared \in PressureOutcomes60 :
              /\ pc' = IF cleared.raised THEN "Aborted"
                       ELSE IF cleared.value THEN "Pause2" ELSE "Phase2"
              /\ check_result' = IF cleared.raised THEN None ELSE Some(cleared.value)
              /\ claims_history_results' =
                     IF cleared.raised \/ cleared.value THEN claims_history_results
                     ELSE EmptyDict
    /\ steps' = Append(steps, Step("pressure", 60))
    /\ UNCHANGED <<fixed_vars, all_rows, loop, i, j, eligibility_results, batch_data,
                   batch_processed, total_vars, remote_vars, call_vars, batches>>

\* lines 313-316, 500-503: pressure check at 60% after the eligibility sweep
Throttle2 ==
    /\ pc = "Throttle2"
    /\ \E cleared \in PressureOutcomes60 :
              /\ pc' = IF cleared.raised THEN "Aborted" ELSE "Pause2"
              /\ check_result' = IF cleared.raised THEN None ELSE Some(cleared.value)
    /\ steps' = Append(steps, Step("pressure", 60))
    /\ UNCHANGED <<fixed_vars, all_rows, loop, i, j, batch_vars, total_vars,
                   remote_vars, call_vars, batches>>

\* lines 316-320, 503-507: time.sleep(1), then phase 2 starts with no history
Pause2 ==
    /\ pc = "Pause2"
    /\ pc' = "Phase2"
    /\ claims_history_results' = EmptyDict
    /\ check_result' = None
    /\ UNCHANGED <<fixed_vars, steps, all_rows, loop, i, j, eligibility_results,
                   batch_data, batch_processed, total_vars, remote_vars, call_vars, batches>>

\* lines 327-336, 512-519: phase 2, a row that is not queried
Phase2Skip ==
    /\ pc = "Phase2"
    /\ \/ ~IsValidRow(row)
       \/ Get(eligibility_results, AccountId(row)) = None
    /\ claims_history_results' = Put(claims_history_results, AccountId(row), None)
    /\ Advance("Throttle3")
    /\ check_result' = None
    /\ UNCHANGED <<fixed_vars, steps, all_rows, loop, i, eligibility_results,
                   batch_data, batch_processed, total_vars, remote_vars, call_vars, batches>>

\* lines 338-343, 521-525: phase 2, the claims history check of a row
Phase2Check ==
    /\ pc = "Phase2"
    /\ IsValidRow(row)
    /\ Get(eligibility_results, AccountId(row)) # None
    /\ \E claims_history \in HistoryOutcomes :
              /\ Answers(remote_history, Key(row), claims_history)
              /\ remote_history' = Put(remote_history, Key(row), claims_history)
              /\ claims_history_results' =
                     Put(claims_history_results, AccountId(row), claims_history)
    /\ history_calls' = [history_calls EXCEPT ![row_index] = @ + 1]
    /\ Advance("Throttle3")
    /\ steps' = Append(steps, Step("history", row_index))
    /\ check_result' = None
    /\ UNCHANGED <<fixed_vars, all_rows, loop, i, eligibility_results,
                   batch_data, batch_processed, total_vars, remote_eligibility,
                   remote_claim, eligibility_calls, claim_calls, batches>>

\* lines 338, 521: check_claims_history raises
Phase2Raise ==
    /\ pc = "Phase2"
    /\ IsValidRow(row)
    /\ Get(eligibility_results, AccountId(row)) # None
    /\ Key(row) \notin DOMAIN remote_history
    /\ HistoryRaises
    /\ pc' = "Aborted"
    /\ history_calls' = [history_calls EXCEPT ![row_index] = @ + 1]
    /\ steps' = Append(steps, Step("history", row_index))
    /\ check_result' = None
    /\ UNCHANGED <<fixed_vars, all_rows, loop, i, j, batch_vars, total_vars, remote_vars,
                   eligibility_calls, claim_calls, batches>>

\* lines 345-348, 527-530: pressure check at 60% after the history sweep
Throttle3 ==
    /\ pc = "Throttle3"
    /\ \E cleared \in PressureOutcomes60 :
              /\ pc' = IF cleared.raised THEN "Aborted" ELSE "Pause3"
              /\ check_result' = IF cleared.raised THEN None ELSE Some(cleared.value)
    /\ steps' = Append(steps, Step("pressure", 60))
    /\ UNCHANGED <<fixed_vars, all_rows, loop, i, j, batch_vars, total_vars,
                   remote_vars, call_vars, batches>>

\* lines 348, 530: time.sleep(1)
Pause3 ==
    /\ pc = "Pause3"
    /\ pc' = "Phase3"
    /\ check_result' = None
    /\ UNCHANGED <<fixed_vars, steps, all_rows, loop, i, j, batch_vars, total_vars,
                   remote_vars, call_vars, batches>>

Text(s) == [kind |-> "text", text |-> s]

\* json.dumps(claim_result_data)
JsonDumps(v) == [kind |-> "json", json |-> v]

Digit == <<"1", "2", "3", "4", "5", "6", "7", "8", "9">>

\* str() of a float holding a small whole number: "2.0"
FloatStr(v) == <<Digit[v], ".", "0">>

\* UpdatedRow with the eligibility status of an unclaimable row left at
\* its initial value
UpdatedRowStatusNotSet(r, claimable_amount, eligibility_status, claim_status, claim_result) ==
    [id |-> AccountId(r), name |-> Strip(r.name), chain |-> AssetId(r),
     amount |-> claimable_amount,
     eligibility_status |->
         IF eligibility_status = "Unclaimable" THEN "Unknown" ELSE eligibility_status,
     claim_status |-> claim_status, claim_result |-> claim_result]

\* lines 409-418, 587-595: updated_row
UpdatedRow(r, claimable_amount, eligibility_status, claim_status, claim_result) ==
    [id |-> AccountId(r), name |-> Strip(r.name), chain |-> AssetId(r),
     amount |-> claimable_amount, eligibility_status |-> eligibility_status,
     claim_status |-> claim_status, claim_result |-> claim_result]

\* Phase3Skip with the skipped row counted in batch_processed
Phase3SkipCounted ==
    /\ pc = "Phase3"
    /\ ~IsValidRow(row)
    /\ Advance("Flush")
    /\ batch_processed' = batch_processed + 1
    /\ check_result' = None
    /\ UNCHANGED <<fixed_vars, steps, all_rows, loop, i, eligibility_results,
                   claims_history_results, batch_data, total_vars, remote_vars, call_vars,
                   batches>>

\* lines 363-366, 541-543: phase 3, a row with no account id or no asset id
Phase3Skip ==
    /\ pc = "Phase3"
    /\ ~IsValidRow(row)
    /\ Advance("Flush")
    /\ check_result' = None
    /\ UNCHANGED <<fixed_vars, steps, all_rows, loop, i, batch_vars, total_vars,
                   remote_vars, call_vars, batches>>

\* ClaimStatus with the failed lookup (None) taken for the empty history
ClaimStatusUnknownAsEmpty(claimable_value, claims_history) ==
    IF claimable_value = None THEN "Skipped"
    ELSE IF claims_history = None THEN "Not Processed"
    ELSE IF Len(claims_history.val) > 0 THEN "Already Claimed"
    ELSE "Not Processed"

\* lines 368-396, 545-573: the claim status of a row that needs no submission:
\* "Not Processed" when the row needs one
ClaimStatus(claimable_value, claims_history) ==
    IF claimable_value = None THEN "Skipped"
    ELSE IF claims_history = None THEN "Error Checking Claims"
    ELSE IF Len(claims_history.val) > 0 THEN "Already Claimed"
    ELSE "Not Processed"

\* lines 368-396 and 409-425, 545-573 and 587-601: phase 3, a row that is
\* classified without a remote call
Phase3Classify ==
    /\ pc = "Phase3"
    /\ IsValidRow(row)
    /\ LET claimable_value == Get(eligibility_results, AccountId(row))
           claims_history == Get(claims_history_results, AccountId(row))
           claim_status == ClaimStatus(claimable_value, claims_history)
       IN  /\ claim_status # "Not Processed"
           /\ IF claimable_value = None
              THEN /\ batch_data' =
                          Append(batch_data,
                                 UpdatedRow(row, Strip(row.amount), "Unclaimable",
                                            claim_status, Text("N/A")))
                   /\ total_unclaimable' = total_unclaimable + 1
                   /\ UNCHANGED <<total_eligible, total_already_claimed>>
              ELSE /\ batch_data' =
                          Append(batch_data,
                                 UpdatedRow(row, FloatStr(claimable_value.val), "Eligible",
                                            claim_status, Text("N/A")))
                   /\ total_eligible' = total_eligible + 1
                   /\ total_already_claimed' =
                          IF claim_status = "Already Claimed"
                          THEN total_already_claimed + 1 ELSE total_already_claimed
                   /\ UNCHANGED total_unclaimable
    /\ batch_processed' = batch_processed + 1
    /\ Advance("Flush")
    /\ check_result' = None
    /\ UNCHANGED <<fixed_vars, steps, all_rows, loop, i, eligibility_results,
                   claims_history_results, all_updated_data, output_file, total_processed,
                   total_claimed, batch_number, remote_vars, call_vars, batches>>

\* lines 397-425, 574-601: phase 3, a row that is eligible with an empty
\* claims history: make_claim
Phase3Submit ==
    /\ pc = "Phase3"
    /\ IsValidRow(row)
    /\ ClaimStatus(Get(eligibility_results, AccountId(row)),
                   Get(claims_history_results, AccountId(row))) = "Not Processed"
    /\ \E claim_result_data \in ClaimOutcomes :
          LET claimable_value == Get(eligibility_results, AccountId(row))
              claimed == claim_result_data # None /\ Truthy(claim_result_data.val)
          IN  /\ Answers(remote_claim, Key(row), claim_result_data)
              /\ remote_claim' = Put(remote_claim, Key(row), claim_result_data)
              /\ batch_data' =
                     Append(batch_data,
                            IF claimed
                            THEN UpdatedRow(row, FloatStr(claimable_value.val), "Eligible",
                                            "Claimed Successfully",
                                            JsonDumps(claim_result_data.val))
                            ELSE UpdatedRow(row, FloatStr(claimable_value.val), "Eligible",
                                            "Claim Failed",
                                            Text("Failed to process claim")))
              /\ total_claimed' = IF claimed THEN total_claimed + 1 ELSE total_claimed
    /\ total_eligible' = total_eligible + 1
    /\ claim_calls' = [claim_calls EXCEPT ![row_index] = @ + 1]
    /\ batch_processed' = batch_processed + 1
    /\ Advance("Flush")
    /\ steps' = Append(steps, Step("claim", row_index))
    /\ check_result' = None
    /\ UNCHANGED <<fixed_vars, all_rows, loop, i, eligibility_results,
                   claims_history_results, all_updated_data, output_file, total_processed,
                   total_already_claimed, total_unclaimable, batch_number,
                   remote_eligibility, remote_history, eligibility_calls, history_calls, batches>>

\* lines 399, 576: make_claim raises
Phase3Raise ==
    /\ pc = "Phase3"
    /\ IsValidRow(row)
    /\ ClaimStatus(Get(eligibility_results, AccountId(row)),
                   Get(claims_history_results, AccountId(row))) = "Not Processed"
    /\ Key(row) \notin DOMAIN remote_claim
    /\ ClaimRaises
    /\ pc' = "Aborted"
    /\ claim_calls' = [claim_calls EXCEPT ![row_index] = @ + 1]
    /\ steps' = Append(steps, Step("claim", row_index))
    /\ check_result' = None
    /\ UNCHANGED <<fixed_vars, all_rows, loop, i, j, batch_vars, total_vars, remote_vars,
                   eligibility_calls, history_calls, batches>>

\* open(output_file, 'w') with the file kept as it was, as mode 'a' does
OpenForAppending(file) == IF file = None THEN Some(<<>>) ELSE file

\* lines 443, 615: open(output_file, 'w') creates the file or empties it
OpenForWriting(file) == Some(<<>>)

\* lines 444-446, 616-618: writeheader() and writerows(rows) on the open
\* file; the content is kept as the rows below the header
WriteRows(file, rows) == Some(file.val \o rows)

\* lines 443-446, 615-618: the output file after it is written with `rows`
WriteOutput(file, rows) == WriteRows(OpenForWriting(file), rows)

\* Flush with the file written before the batch's rows have joined
\* all_updated_data
FlushBeforeExtend ==
    /\ pc = "Flush"
    /\ all_updated_data' = all_updated_data \o batch_data
    /\ total_processed' = total_processed + batch_processed
    /\ output_file' = WriteOutput(output_file, all_updated_data)
    /\ pc' = "Throttle4"
    /\ steps' = Append(steps, Step("flush", Len(batch_data)))
    /\ check_result' = None
    /\ UNCHANGED <<fixed_vars, all_rows, loop, i, j, batch_vars,
                   total_eligible, total_already_claimed, total_claimed, total_unclaimable,
                   batch_number, remote_vars, call_vars, batches>>

\* lines 427-448, 603-621: the batch's rows join all_updated_data and the
\* output file is rewritten with all of them
Flush ==
    /\ pc = "Flush"
    /\ all_updated_data' = all_updated_data \o batch_data
    /\ total_processed' = total_processed + batch_processed
    /\ output_file' = WriteOutput(output_file, all_updated_data')
    /\ pc' = "Throttle4"
    /\ steps' = Append(steps, Step("flush", Len(batch_data)))
    /\ check_result' = None
    /\ UNCHANGED <<fixed_vars, all_rows, loop, i, j, batch_vars,
                   total_eligible, total_already_claimed, total_claimed, total_unclaimable,
                   batch_number, remote_vars, call_vars, batches>>

\* lines 450-456, 623-629: pressure check at 50%, then break after the last
\* batch; the loop under the progress bar is followed by the second loop
Throttle4 ==
    /\ pc = "Throttle4"
    /\ \E cleared \in PressureOutcomes50 :
              /\ check_result' = IF cleared.raised THEN None ELSE Some(cleared.value)
              /\ IF cleared.raised
                 THEN pc' = "Aborted" /\ UNCHANGED <<loop, i>>
                 ELSE IF i + batch_size >= Len(all_rows)
                      THEN IF loop = 1
                           THEN pc' = AfterLoopHead(all_rows) /\ loop' = 2 /\ i' = 0
                           ELSE pc' = "Summary" /\ UNCHANGED <<loop, i>>
                      ELSE pc' = "Delay" /\ UNCHANGED <<loop, i>>
    /\ steps' = Append(steps, Step("pressure", 50))
    /\ UNCHANGED <<fixed_vars, all_rows, j, batch_vars, total_vars,
                   remote_vars, call_vars, batches>>

\* lines 458-461, 631-634: time.sleep(batch_delay), then the next batch
Delay ==
    /\ pc = "Delay"
    /\ batch_number' = batch_number + 1
    /\ i' = i + batch_size
    /\ pc' = "Throttle1"
    /\ check_result' = None
    /\ UNCHANGED <<fixed_vars, steps, all_rows, loop, j, batch_vars,
                   all_updated_data, output_file, total_processed, total_eligible,
                   total_already_claimed, total_claimed, total_unclaimable, remote_vars,
                   call_vars, batches>>

\* lines 636-646: the final summary
Summary ==
    /\ pc = "Summary"
    /\ pc' = "Completed"
    /\ check_result' = None
    /\ UNCHANGED <<fixed_vars, steps, all_rows, loop, i, j, batch_vars, total_vars,
                   remote_vars, call_vars, batches>>

Next ==
    \/ ReadRows
    \/ Throttle1
    \/ Settle1
    \/ Phase1Skip
    \/ Phase1Check
    \/ Phase1Raise
    \/ Throttle2
    \/ Pause2
    \/ Phase2Skip
    \/ Phase2Check
    \/ Phase2Raise
    \/ Throttle3
    \/ Pause3
    \/ Phase3Skip
    \/ Phase3Classify
    \/ Phase3Submit
    \/ Phase3Raise
    \/ Flush
    \/ Throttle4
    \/ Delay
    \/ Summary

Spec == Init /\ [][Next]_vars

(***************************************************************************)
(* process_claims_csv with any batch_size: main() hands --batch-size over  *)
(* as parsed, and nothing checks it.                                       *)
(***************************************************************************)
AnyBatchSizes == {-1, 0} \cup (1..MaxBatch)

InitAnyBatchSize ==
    /\ input_file \in SeqsUpTo(RowUniverse, MaxRows)
    /\ batch_size \in AnyBatchSizes
    /\ max_rows = None
    /\ Started

SpecAnyBatchSize == InitAnyBatchSize /\ [][Next]_vars

(***************************************************************************)
(* The client functions and the pressure check called on their own, over   *)
(* every answer of their endpoints.                                        *)
(***************************************************************************)
PoolMaxSizes == {7, PoolMaxSize}

\* threshold_percent: "Percentage threshold to trigger clearing (0-100)"
ThresholdPercents == {33, 50, 60, 80}

\* what a client function gives its caller: the value it returns, or the
\* exception that leaves it
Return(v) == [raised |-> FALSE, value |-> v]

Raise == [raised |-> TRUE, value |-> None]

\* the variables of process_claims_csv, which a call on its own leaves alone
program_vars ==
    <<run_vars, batch_vars, total_vars, remote_vars, call_vars, batches, steps, runs,
      crashed_at, recovery_point, check_result, accounts_vars>>

CallEligibility ==
    /\ client_call.fn = "none"
    /\ \E resp \in EligibilityResponses :
          /\ client_call' = [fn |-> "check_address_eligibility", resp |-> resp]
          /\ client_result' =
                 IF HandlerRaises(resp) THEN Raise
                 ELSE Return(check_address_eligibility(resp))
    /\ UNCHANGED program_vars

CallHistory ==
    /\ client_call.fn = "none"
    /\ \E resp \in HistoryResponses :
          /\ client_call' = [fn |-> "check_claims_history", resp |-> resp]
          /\ client_result' =
                 IF HandlerRaises(resp) THEN Raise ELSE Return(check_claims_history(resp))
    /\ UNCHANGED program_vars

CallClaim ==
    /\ client_call.fn = "none"
    /\ \E resp \in SubmitResponses :
          /\ client_call' = [fn |-> "make_claim", resp |-> resp]
          /\ client_result' = IF HandlerRaises(resp) THEN Raise ELSE Return(make_claim(resp))
    /\ UNCHANGED program_vars

CallMetrics ==
    /\ client_call.fn = "none"
    /\ \E resp \in MetricsResponses :
          /\ client_call' = [fn |-> "get_pool_metrics", resp |-> resp]
          /\ client_result' = Return(get_pool_metrics(resp))
    /\ UNCHANGED program_vars

CallClear ==
    /\ client_call.fn = "none"
    /\ \E resp \in ClearResponses :
          /\ client_call' = [fn |-> "clear_pool", resp |-> resp]
          /\ client_result' = Return(clear_pool(resp))
    /\ UNCHANGED program_vars

CallPressure ==
    \E mresp \in MetricsResponses, cresp \in ClearResponses,
       pool_max_size \in PoolMaxSizes, threshold_percent \in ThresholdPercents :
        /\ client_call.fn = "none"
        /\ client_call' =
               [fn |-> "check_and_clear_pool_if_needed", resp |-> mresp, cresp |-> cresp,
                pool_max_size |-> pool_max_size, threshold_percent |-> threshold_percent]
        /\ client_result' =
               check_and_clear_pool_if_needed(mresp, cresp, pool_max_size, threshold_percent)
        /\ UNCHANGED program_vars

InitClient ==
    /\ input_file = <<>>
    /\ batch_size = 1
    /\ max_rows = None
    /\ Started

NextClient ==
    \/ CallEligibility
    \/ CallHistory
    \/ CallClaim
    \/ CallMetrics
    \/ CallClear
    \/ CallPressure

SpecClient == InitClient /\ [][NextClient]_vars

(***************************************************************************)
(* A run that is killed (a signal, a power cut), and the program started   *)
(* again on the same input and output files.  Of what the run wrote, only  *)
(* the output file outlives the process.                                   *)
(***************************************************************************)
Running == pc \notin {"Completed", "Aborted", "ValueError", "Crashed"}

\* rows of the input covered by the batches whose flush has completed
FlushedUpTo ==
    IF loop = 2 THEN Len(all_rows)
    ELSE IF pc \in {"Throttle4", "Delay"} THEN Min(i + batch_size, Len(all_rows))
    ELSE i

\* lines 443-446: open(output_file, 'w') empties the file, writerows and the
\* close fill it: a process killed in between leaves a prefix of the rows
InterruptedWrite(rows) == {Some(SubSeq(rows, 1, n)) : n \in 0..Len(rows)}

Crash ==
    /\ Running
    /\ pc' = "Crashed"
    /\ crashed_at' = pc
    /\ recovery_point' = FlushedUpTo
    /\ output_file' \in
           IF pc = "Flush"
           THEN {output_file} \cup InterruptedWrite(all_updated_data \o batch_data)
           ELSE {output_file}
    /\ all_rows' = <<>>
    /\ loop' = 1
    /\ i' = 0
    /\ j' = 1
    /\ eligibility_results' = EmptyDict
    /\ claims_history_results' = EmptyDict
    /\ batch_data' = <<>>
    /\ batch_processed' = 0
    /\ all_updated_data' = <<>>
    /\ total_processed' = 0
    /\ total_eligible' = 0
    /\ total_already_claimed' = 0
    /\ total_claimed' = 0
    /\ total_unclaimable' = 0
    /\ batch_number' = 1
    /\ eligibility_calls' = <<>>
    /\ history_calls' = <<>>
    /\ claim_calls' = <<>>
    /\ batches' = <<>>
    /\ steps' = <<>>
    /\ check_result' = None
    /\ UNCHANGED <<input_file, batch_size, max_rows, remote_vars, runs, client_call,
                   client_result, accounts_vars>>

\* the program is started again
Restart ==
    /\ pc = "Crashed"
    /\ runs < MaxRuns
    /\ runs' = runs + 1
    /\ pc' = "Idle"
    /\ crashed_at' = ""
    /\ check_result' = None
    /\ UNCHANGED <<input_file, batch_size, max_rows, all_rows, loop, i, j, batch_vars,
                   total_vars, accounts_vars,
                   remote_vars, call_vars, batches, steps, recovery_point,
                   client_call, client_result>>

InitCrash ==
    /\ input_file \in SeqsUpTo(RowUniverse, MaxCrashRows)
    /\ batch_size \in 1..MaxBatch
    /\ max_rows = None
    /\ Started

NextCrash ==
    \/ Next
    \/ Crash

SpecCrash == InitCrash /\ [][NextCrash]_vars

NextRestart ==
    \/ NextCrash
    \/ Restart

SpecRestart == InitCrash /\ [][NextRestart]_vars

(***************************************************************************)
(* Vocabulary of the properties.                                           *)
(***************************************************************************)
ValidIndices == {n \in 1..Len(all_rows) : IsValidRow(all_rows[n])}

\* what the service answered for the record's own (account id, asset id)
ServiceSaysEligible(n) ==
    LET k == Key(all_rows[n])
    IN  k \in DOMAIN remote_eligibility /\ remote_eligibility[k] # None

ServiceHistoryFailed(n) ==
    LET k == Key(all_rows[n])
    IN  k \in DOMAIN remote_history /\ remote_history[k] = None

ServiceSaysNoHistory(n) ==
    LET k == Key(all_rows[n])
    IN  k \in DOMAIN remote_history /\ remote_history[k] = Some(<<>>)

ServiceSaysHistory(n) ==
    LET k == Key(all_rows[n])
    IN  /\ k \in DOMAIN remote_history
        /\ remote_history[k] # None
        /\ remote_history[k] # Some(<<>>)

ServiceAcceptsClaim(n) ==
    LET k == Key(all_rows[n])
    IN  /\ k \in DOMAIN remote_claim
        /\ remote_claim[k] # None
        /\ Truthy(remote_claim[k].val)

Statuses(rows) == {rows[m].claim_status : m \in 1..Len(rows)}

Last(seq) == seq[Len(seq)]

\* the (account id, asset id) pairs of result rows, and of the valid input rows
ResultKeys(rows) == [m \in 1..Len(rows) |-> <<rows[m].id, rows[m].chain>>]

ValidKeys(rows) ==
    LET valid == SelectSeq(rows, IsValidRow)
    IN  [m \in 1..Len(valid) |-> Key(valid[m])]

(***************************************************************************)
(* C1.  In one run against a service whose answers per record are fixed,   *)
(* make_claim is issued exactly once for each record that is eligible with *)
(* an empty claims history, and for no other record.                       *)
(* Violated: the batch loop is in the function twice, so a completed run   *)
(* has issued make_claim twice for such a record.                          *)
(***************************************************************************)
C1_OneSubmitPerClaimableRecord ==
    pc = "Completed" =>
        \A n \in 1..Len(all_rows) :
            claim_calls[n] =
                IF /\ n \in ValidIndices
                   /\ ServiceSaysEligible(n)
                   /\ ServiceSaysNoHistory(n)
                THEN 1 ELSE 0

(***************************************************************************)
(* C2.  Phase 3 gives every valid record its claim status by the decision  *)
(* table over the eligibility and the claims history it holds for the      *)
(* record's account id: Unclaimable gives Skipped whatever the history,    *)
(* Eligible with history None gives Error Checking Claims, Eligible with a *)
(* non-empty history gives Already Claimed, Eligible with an empty history *)
(* calls make_claim and gives Claimed Successfully or Claim Failed.  Only  *)
(* the last case performs a remote call.                                   *)
(***************************************************************************)
C2_DecisionTable ==
    [][(pc = "Phase3" /\ IsValidRow(row)) =>
          LET eligibility == Get(eligibility_results, AccountId(row))
              history == Get(claims_history_results, AccountId(row))
              submitted == claim_calls'[row_index] = claim_calls[row_index] + 1
              quiet == /\ claim_calls' = claim_calls
                       /\ remote_claim' = remote_claim
          IN  /\ Len(batch_data') = Len(batch_data) + 1
              /\ eligibility_calls' = eligibility_calls
              /\ history_calls' = history_calls
              /\ (Last(batch_data').eligibility_status = "Unclaimable")
                    <=> (eligibility = None)
              /\ eligibility = None =>
                    Last(batch_data').claim_status = "Skipped" /\ quiet
              /\ (eligibility # None /\ history = None) =>
                    Last(batch_data').claim_status = "Error Checking Claims" /\ quiet
              /\ (eligibility # None /\ history # None /\ history.val # <<>>) =>
                    Last(batch_data').claim_status = "Already Claimed" /\ quiet
              /\ (eligibility # None /\ history = Some(<<>>)) =>
                    /\ Last(batch_data').claim_status
                           \in {"Claimed Successfully", "Claim Failed"}
                    /\ submitted
      ]_vars

\* a run that has emitted a Skipped, an Already Claimed and a Claimed
\* Successfully row, the last one after a make_claim call
C2_Witness ==
    /\ {"Skipped", "Already Claimed", "Claimed Successfully"} \subseteq Statuses(all_updated_data)
    /\ \E n \in DOMAIN claim_calls : claim_calls[n] > 0

(***************************************************************************)
(* C3.  Every make_claim call is for a record that is eligible and whose   *)
(* claims history is the empty sequence.                                   *)
(* Violated: the batch mappings are keyed by account id alone (C28), so a  *)
(* record inherits the eligibility and history of a later record of the    *)
(* batch with the same account id, and make_claim is issued for a record   *)
(* the service called unclaimable.                                         *)
(***************************************************************************)
C3_SubmitOnlyEligibleNoHistory ==
    \A n \in DOMAIN claim_calls :
        claim_calls[n] > 0 => ServiceSaysEligible(n) /\ ServiceSaysNoHistory(n)

(***************************************************************************)
(* C4.  A record whose claims-history lookup failed has history Unknown:   *)
(* its claim status is Error Checking Claims and no make_claim is issued   *)
(* for it.                                                                 *)
(* Violated: the None stored under the account id is overwritten by the    *)
(* history of a later record with the same account id (C28).               *)
(***************************************************************************)
C4_FailedLookupNeverSubmits ==
    [][(/\ pc = "Phase3"
        /\ IsValidRow(row)
        /\ history_calls[row_index] > 0
        /\ ServiceHistoryFailed(row_index)) =>
          /\ claim_calls' = claim_calls
          /\ Len(batch_data') = Len(batch_data) + 1
          /\ Last(batch_data').claim_status = "Error Checking Claims"
      ]_vars

(***************************************************************************)
(* C5.  check_claims_history is called only for records whose own          *)
(* eligibility check made them Eligible, never for an Unclaimable record.  *)
(* Violated: phase 2 reads the eligibility stored under the account id,    *)
(* which a later record with the same account id has overwritten (C28).    *)
(***************************************************************************)
C5_HistoryOnlyForEligible ==
    \A n \in DOMAIN history_calls :
        history_calls[n] > 0 => ServiceSaysEligible(n)

(***************************************************************************)
(* C6.  A record's row is Eligible if and only if the eligibility check of *)
(* that record returned a value > 0.                                       *)
(* Violated: the row takes the value stored under the account id, which    *)
(* may be another record's (C28).                                          *)
(***************************************************************************)
C6_EligibleIffPositiveValue ==
    [][(pc = "Phase3" /\ IsValidRow(row)) =>
          /\ Len(batch_data') = Len(batch_data) + 1
          /\ (Last(batch_data').eligibility_status = "Eligible")
                <=> ServiceSaysEligible(row_index)
          /\ (Last(batch_data').eligibility_status = "Unclaimable")
                <=> ~ServiceSaysEligible(row_index)
      ]_vars

(***************************************************************************)
(* C7.  After every flush, and at completion, the output file holds        *)
(* exactly one row for each valid record of the batches flushed so far, in *)
(* input order.                                                            *)
(* Violated: the second batch loop appends every record's row again (C1).  *)
(***************************************************************************)
C7_SinkIsPrefixOfResults ==
    /\ pc = "Throttle4" =>
          ResultKeys(output_file.val)
              = ValidKeys(SubSeq(all_rows, 1, Min(i + batch_size, Len(all_rows))))
    /\ (pc = "Completed" /\ output_file # None) =>
          ResultKeys(output_file.val) = ValidKeys(all_rows)

(***************************************************************************)
(* C8.  At completion the summary counters equal the number of input       *)
(* records in each bucket.                                                 *)
(* Violated: every record is counted once by each of the two batch loops   *)
(* (C1).                                                                   *)
(***************************************************************************)
C8_SummaryCounters ==
    pc = "Completed" =>
        LET eligible == {n \in ValidIndices : ServiceSaysEligible(n)}
        IN  /\ total_processed = Cardinality(ValidIndices)
            /\ total_eligible = Cardinality(eligible)
            /\ total_unclaimable = Cardinality(ValidIndices \ eligible)
            /\ total_already_claimed =
                   Cardinality({n \in eligible : ServiceSaysHistory(n)})
            /\ total_claimed =
                   Cardinality({n \in eligible :
                                   ServiceSaysNoHistory(n) /\ ServiceAcceptsClaim(n)})

(***************************************************************************)
(* C9.  The batches a run processes are contiguous, non-overlapping slices *)
(* of at most batch_size rows that together are the input, in order; only  *)
(* the final batch may be shorter.                                         *)
(* Violated: the run goes through the slices twice (C1).                   *)
(***************************************************************************)
C9_BatchesPartitionInput ==
    pc = "Completed" =>
        IF Len(all_rows) = 0 THEN batches = <<>>
        ELSE /\ batches # <<>>
             /\ batches[1].from = 0
             /\ Last(batches).to = Len(all_rows)
             /\ \A k \in 1..Len(batches) :
                   /\ batches[k].from < batches[k].to
                   /\ batches[k].to - batches[k].from <= batch_size
             /\ \A k \in 1..(Len(batches) - 1) :
                   /\ batches[k + 1].from = batches[k].to
                   /\ batches[k].to - batches[k].from = batch_size

(***************************************************************************)
(* C10.  Whatever the remote calls answer, the run is never aborted by     *)
(* one: it goes on to Completed.                                           *)
(* Violated: a /metrics answer of 200 whose JSON body is no mapping, or    *)
(* whose totalInstances is no number, raises out of the pressure check     *)
(* (C25) and ends the run.                                                 *)
(***************************************************************************)
C10_NeverAborted == pc # "Aborted"

(***************************************************************************)
(* Vocabulary of the properties of C11 to C20.                             *)
(***************************************************************************)
IsPrefix(s, t) == Len(s) <= Len(t) /\ SubSeq(t, 1, Len(s)) = s

IsSuffix(s, t) == Len(s) <= Len(t) /\ SubSeq(t, Len(t) - Len(s) + 1, Len(t)) = s

\* the statements of a batch, from its first pressure check to its last
BatchStatements ==
    {"Throttle1", "Settle1", "Phase1", "Throttle2", "Pause2", "Phase2", "Throttle3",
     "Pause3", "Phase3", "Flush", "Throttle4"}

\* positions in the batch's steps of the calls of one kind, and their rows
StepsOf(op) == {k \in 1..Len(steps) : steps[k].op = op}

RowsOf(op) == {steps[k].arg : k \in StepsOf(op)}

\* the input rows of the batch with an account id and an asset id
ValidOfBatch ==
    {n \in (i + 1)..Min(i + batch_size, Len(all_rows)) : IsValidRow(all_rows[n])}

(***************************************************************************)
(* C11.  A run with batch_size <= 0 is rejected before any remote call: it *)
(* processes no batch, writes no output and never reports completion.      *)
(* Violated: nothing checks batch_size.  With a negative batch_size        *)
(* range(0, len(all_rows), batch_size) is empty, both batch loops are      *)
(* skipped and the run prints its summary "CLAIMS PROCESSING COMPLETE".    *)
(***************************************************************************)
C11_BadBatchSizeRejected ==
    batch_size <= 0 =>
        /\ pc # "Completed"
        /\ batches = <<>>
        /\ output_file = None
        /\ steps = <<>>

(***************************************************************************)
(* C12.  When the run is killed, also while it flushes a later batch, the  *)
(* output file still holds the rows of the batches flushed before.         *)
(* Violated: every flush opens the output file with mode 'w', which        *)
(* empties it, and writes all rows again; a run killed in between leaves   *)
(* the file without the rows of the earlier batches.                       *)
(***************************************************************************)
C12_CrashKeepsFlushedRows ==
    [][(pc # "Crashed" /\ pc' = "Crashed" /\ all_updated_data # <<>>) =>
          /\ output_file' # None
          /\ IsPrefix(all_updated_data, output_file'.val)
      ]_vars

(***************************************************************************)
(* C13.  A run started after a killed run continues after the batches the  *)
(* killed run had flushed: it starts no batch before the recovery point    *)
(* and issues no remote call for the records before it.                    *)
(* Violated: process_claims_csv reads nothing of an earlier run; it starts *)
(* at row 0 and calls the service again for every record.                  *)
(***************************************************************************)
C13_ResumesAfterFlushedBatches ==
    runs > 1 =>
        /\ pc \in BatchStatements => i >= recovery_point
        /\ \A n \in DOMAIN eligibility_calls :
              n <= recovery_point =>
                  /\ eligibility_calls[n] = 0
                  /\ history_calls[n] = 0
                  /\ claim_calls[n] = 0

(***************************************************************************)
(* C14.  Every batch goes through its statements in one order: pressure    *)
(* check at 80%, eligibility sweep, pressure check at 60%, history sweep,  *)
(* pressure check at 60%, claim sweep, flush, pressure check at 50%, then  *)
(* the delay when rows remain and the summary when none does; no statement *)
(* is left out, whatever the service answers.                              *)
(* Violated: a pressure check that raises (C25) or a client function that  *)
(* raises (C18) ends the batch where it is, and the last batch of the      *)
(* first batch loop is followed by the batches of the second one (C1).     *)
(***************************************************************************)
C14_FixedStepOrder ==
    [][(pc \in BatchStatements) =>
          LET sweep_done == j = Len(batch_rows)
              checked(percent) == steps' # <<>> /\ Last(steps') = Step("pressure", percent)
          IN  /\ pc = "Throttle1" => pc' \in {"Settle1", "Phase1"} /\ checked(80)
              /\ pc = "Settle1" => pc' = "Phase1"
              /\ pc = "Phase1" => pc' = IF sweep_done THEN "Throttle2" ELSE "Phase1"
              /\ pc = "Throttle2" => pc' = "Pause2" /\ checked(60)
              /\ pc = "Pause2" => pc' = "Phase2"
              /\ pc = "Phase2" => pc' = IF sweep_done THEN "Throttle3" ELSE "Phase2"
              /\ pc = "Throttle3" => pc' = "Pause3" /\ checked(60)
              /\ pc = "Pause3" => pc' = "Phase3"
              /\ pc = "Phase3" => pc' = IF sweep_done THEN "Flush" ELSE "Phase3"
              /\ pc = "Flush" => pc' = "Throttle4"
              /\ pc = "Throttle4" =>
                    /\ checked(50)
                    /\ pc' = IF i + batch_size < Len(all_rows) THEN "Delay" ELSE "Summary"
      ]_vars

(***************************************************************************)
(* C15.  Within a batch the three phases are full sweeps: every            *)
(* check_address_eligibility call of the batch comes before its first      *)
(* check_claims_history call, and every check_claims_history call before   *)
(* its first make_claim call.                                              *)
(***************************************************************************)
C15_PhasesAreFullSweeps ==
    /\ \A e \in StepsOf("eligibility"), h \in StepsOf("history") \cup StepsOf("claim") : e < h
    /\ \A h \in StepsOf("history"), c \in StepsOf("claim") : h < c
    /\ pc \in BatchStatements \ {"Throttle1"} =>
          /\ RowsOf("history") \cup RowsOf("claim") # {} =>
                RowsOf("eligibility") = ValidOfBatch
          /\ RowsOf("claim") # {} =>
                RowsOf("history") =
                    {n \in ValidOfBatch :
                        Get(eligibility_results, AccountId(all_rows[n])) # None}

\* a batch of two rows with two eligibility calls, then two history calls,
\* then a make_claim call
C15_Witness ==
    /\ pc \in BatchStatements \ {"Throttle1"}
    /\ Cardinality(StepsOf("eligibility")) = 2
    /\ Cardinality(StepsOf("history")) = 2
    /\ StepsOf("claim") # {}

Sees(total) ==
    /\ client_call.fn = "check_and_clear_pool_if_needed"
    /\ client_call.resp.kind = "response"
    /\ client_call.resp.status = 200
    /\ client_call.resp.body.t = "obj"
    /\ "totalInstances" \in client_call.resp.body.fields
    /\ client_call.resp.body.totalInstances.t = "num"
    /\ client_call.resp.body.totalInstances.n = total

C18_ClientNeverRaises ==
    client_call.fn \in {"check_address_eligibility", "check_claims_history", "make_claim",
                        "get_pool_metrics", "clear_pool"} =>
        LET failed ==
                \/ client_call.resp.kind # "response"
                \/ client_call.resp.status # 200
                \/ client_call.resp.body.t = "bad"
        IN  /\ ~client_result.raised
            /\ failed =>
                  CASE client_call.fn = "get_pool_metrics" ->
                           /\ client_result.value.t = "obj"
                           /\ client_result.value.fields = {}
                    [] client_call.fn = "clear_pool" -> ~client_result.value
                    [] OTHER -> client_result.value = None

(***************************************************************************)
(* C19.  For a record that is eligible with an empty claims history,       *)
(* whenever make_claim returns a payload, the empty object included, the   *)
(* row is Claimed Successfully and carries the payload; it is Claim Failed *)
(* only when make_claim returned None.                                     *)
(* Violated: the run tests "if claim_result_data:", the truth value of the *)
(* payload, so the payload {} gives Claim Failed.                          *)
(***************************************************************************)
C19_PayloadMeansClaimed ==
    [][(/\ pc = "Phase3"
        /\ IsValidRow(row)
        /\ ServiceSaysEligible(row_index)
        /\ ServiceSaysNoHistory(row_index)
        /\ claim_calls' # claim_calls
        /\ pc' # "Aborted") =>
          LET payload == remote_claim'[Key(row)]
              emitted == Last(batch_data')
          IN  /\ payload # None =>
                    /\ emitted.claim_status = "Claimed Successfully"
                    /\ emitted.claim_result = JsonDumps(payload.val)
              /\ emitted.claim_status = "Claim Failed" => payload = None
      ]_vars

(***************************************************************************)
(* C20.  The output file changes only at the flush of a batch, and the     *)
(* flush writes all rows of the batch together: the pressure checks, the   *)
(* pauses and the three sweeps leave the file as it is, also when the run  *)
(* is killed between two records, so the file never ends with a part of a  *)
(* batch's rows.                                                           *)
(***************************************************************************)
C20_SinkChangesOnlyAtFlush ==
    [][/\ pc # "Flush" => output_file' = output_file
       /\ (pc = "Flush" /\ pc' = "Throttle4") =>
             /\ output_file' # None
             /\ IsSuffix(batch_data, output_file'.val)
             /\ Len(output_file'.val) =
                    Len(batch_data) + (IF output_file = None THEN 0 ELSE Len(output_file.val))
      ]_vars

\* a run killed in the claim sweep of a later batch, after a row of that
\* batch was made: the file holds the rows of the batches before
C20_Witness ==
    /\ pc = "Crashed"
    /\ crashed_at = "Phase3"
    /\ recovery_point > 0
    /\ output_file # None
    /\ output_file.val # <<>>

(***************************************************************************)
(* C21.  The inter-batch delay is slept exactly when more batches remain:  *)
(* every batch but the first one processed starts right after the delay    *)
(* that follows the batch before it, and after the end-of-batch pressure   *)
(* check of the last batch no delay is slept and the run goes to the       *)
(* summary.                                                                *)
(* Violated: after the last batch of the loop under the progress bar the   *)
(* run does not go to the summary; the second loop starts its first batch  *)
(* with no delay before it (C1).                                           *)
(***************************************************************************)
C21_DelayExactlyBetweenBatches ==
    [][/\ (pc' = "Throttle1" /\ pc # "Idle") => pc = "Delay"
       /\ pc = "Delay" => i + batch_size < Len(all_rows)
       /\ (pc = "Throttle4" /\ pc' # "Aborted" /\ i + batch_size >= Len(all_rows)) =>
             pc' = "Summary"
      ]_vars

(***************************************************************************)
(* process_claims_csv on inputs with rows that miss the account id, rows   *)
(* that miss the asset id, and complete rows.                              *)
(***************************************************************************)
SkipUniverse ==
    { Row(<<"A">>, <<"n", "1">>, <<"c", "1">>, <<"5">>),
      Row(<<" ">>, <<"n", "5">>, <<"c", "1">>, <<"9">>),
      Row(<<"A">>, <<"n", "4">>, <<" ">>, <<"8">>) }

InitSkips ==
    /\ input_file \in SeqsUpTo(SkipUniverse, MaxRows)
    /\ batch_size \in 1..MaxBatch
    /\ max_rows = None
    /\ Started

SpecSkips == InitSkips /\ [][Next]_vars

C23_FlushIdempotent ==
    [][(pc = "Flush" /\ pc' = "Throttle4") =>
          LET rows == all_updated_data'
              before == {None, Some(<<>>), output_file, Some(batch_data),
                         Some(rows), Some(rows \o rows)}
          IN  /\ \A file \in before : WriteOutput(file, rows) = output_file'
              /\ WriteOutput(output_file', rows) = output_file'
              /\ WriteOutput(WriteOutput(output_file, rows), rows) = output_file'
      ]_vars

\* after the flush of a later batch: the file held rows before, and holds
\* more now
C23_Witness ==
    /\ pc = "Throttle4"
    /\ batch_data # <<>>
    /\ output_file # None
    /\ Len(output_file.val) > Len(batch_data)

(***************************************************************************)
(* C24.  A settle pause follows a pressure check only after a clear: at    *)
(* the batch start (80%) and after the eligibility and history sweeps      *)
(* (60%) the pause is taken exactly when the check returned True, and no   *)
(* pause follows the end-of-batch check (50%).                             *)
(* Violated as stated: time.sleep(1) after the two 60% checks is not under *)
(* an `if`; the pause is taken when the check returned False too.          *)
(***************************************************************************)
C24_PauseOnlyAfterClear ==
    [][/\ (pc = "Throttle1" /\ pc' # "Aborted") =>
             /\ pc' \in {"Settle1", "Phase1"}
             /\ pc' = "Settle1" <=> check_result' = Some(TRUE)
       /\ (pc = "Throttle2" /\ pc' # "Aborted") =>
             /\ pc' \in {"Pause2", "Phase2"}
             /\ pc' = "Pause2" <=> check_result' = Some(TRUE)
       /\ (pc = "Throttle3" /\ pc' # "Aborted") =>
             /\ pc' \in {"Pause3", "Phase3"}
             /\ pc' = "Pause3" <=> check_result' = Some(TRUE)
       /\ pc = "Throttle4" => pc' \notin {"Settle1", "Pause2", "Pause3"}
      ]_vars

(***************************************************************************)
(* C24, amended.  The pause after the batch-start check (80%) is taken     *)
(* exactly when the check returned True; the pause after each of the two   *)
(* 60% checks is taken whatever the check returned; no pause follows the   *)
(* end-of-batch check (50%).                                               *)
(***************************************************************************)
C24_PauseAmended ==
    [][/\ (pc = "Throttle1" /\ pc' # "Aborted") =>
             /\ pc' \in {"Settle1", "Phase1"}
             /\ pc' = "Settle1" <=> check_result' = Some(TRUE)
       /\ (pc = "Throttle2" /\ pc' # "Aborted") =>
             /\ pc' = "Pause2"
             /\ check_result' \in {Some(TRUE), Some(FALSE)}
       /\ (pc = "Throttle3" /\ pc' # "Aborted") =>
             /\ pc' = "Pause3"
             /\ check_result' \in {Some(TRUE), Some(FALSE)}
       /\ pc = "Throttle4" => pc' \notin {"Settle1", "Pause2", "Pause3"}
      ]_vars

\* the pause after the history sweep's check of the second batch, which
\* cleared nothing
C24_Witness ==
    /\ pc = "Pause3"
    /\ check_result = Some(FALSE)
    /\ batch_number = 2

(***************************************************************************)
(* C25.  The pressure check never aborts the run: whatever /metrics and    *)
(* /clear-pool answer, each of the four checks of a batch returns a        *)
(* boolean and the run goes on to the statement after the check.           *)
(* Violated: a 200 answer of /metrics whose JSON body is truthy but no     *)
(* mapping (metrics.get raises AttributeError), or whose totalInstances is *)
(* null (None >= threshold raises TypeError), raises out of the check and  *)
(* nothing in process_claims_csv catches it.                               *)
(***************************************************************************)
C25_PressureCheckNeverAborts ==
    [][(pc \in {"Throttle1", "Throttle2", "Throttle3", "Throttle4"}) =>
          /\ pc' # "Aborted"
          /\ check_result' \in {Some(TRUE), Some(FALSE)}
      ]_vars

(***************************************************************************)
(* process_claims_csv called with a max_rows argument.                     *)
(***************************************************************************)
MaxCap == 2

MaxRowsArguments == {None} \cup {Some(n) : n \in 0..MaxCap}

InitMaxRows ==
    /\ input_file \in SeqsUpTo(RowUniverse, MaxCap)
    /\ batch_size \in 1..MaxBatch
    /\ max_rows \in MaxRowsArguments
    /\ Started

SpecMaxRows == InitMaxRows /\ [][Next]_vars

\* rows[:n] for n >= 0
FirstRows(rows, n) == SubSeq(rows, 1, Min(n, Len(rows)))

(***************************************************************************)
(* C26.  With max_rows given as n >= 0 (0 included), the rows the run      *)
(* works on are the first n rows of the input, no remote call is issued    *)
(* for a later row, and at most n result rows are made; with max_rows not  *)
(* given the run works on every row of the input.                          *)
(* Violated: `if max_rows:` is false for 0, so max_rows = 0 processes the  *)
(* whole input; and the second batch loop (C1) makes every result row a    *)
(* second time.                                                            *)
(***************************************************************************)
C26_MaxRowsCap ==
    pc # "Idle" =>
        IF max_rows = None THEN all_rows = input_file
        ELSE /\ all_rows = FirstRows(input_file, max_rows.val)
             /\ \A n \in 1..Len(input_file) :
                   n > max_rows.val =>
                       /\ eligibility_calls[n] = 0
                       /\ history_calls[n] = 0
                       /\ claim_calls[n] = 0
             /\ Len(all_updated_data) <= max_rows.val
             /\ output_file # None => Len(output_file.val) <= max_rows.val

(***************************************************************************)
(* C27.  The accumulated results only grow during a run: every step leaves *)
(* all_updated_data as it is or extends it at its end, and lowers none of  *)
(* total_processed, total_eligible, total_already_claimed, total_claimed,  *)
(* total_unclaimable.                                                      *)
(***************************************************************************)
C27_RunStateOnlyGrows ==
    [][/\ IsPrefix(all_updated_data, all_updated_data')
       /\ total_processed' >= total_processed
       /\ total_eligible' >= total_eligible
       /\ total_already_claimed' >= total_already_claimed
       /\ total_claimed' >= total_claimed
       /\ total_unclaimable' >= total_unclaimable
      ]_vars

\* a completed run whose accumulated rows came from more than one flush and
\* whose counters have all moved
C27_Witness ==
    /\ pc = "Completed"
    /\ Len(batches) > 2
    /\ Len(all_updated_data) > 2
    /\ total_processed > 2
    /\ total_already_claimed > 0
    /\ total_claimed > 0
    /\ total_unclaimable > 0

(***************************************************************************)
(* C28.  Within a batch, the eligibility result and the claims history the *)
(* claim sweep uses for a record are the ones obtained for that record's   *)
(* own (account id, asset id): no other record of the batch changes them.  *)
(* Violated: eligibility_results and claims_history_results are keyed by   *)
(* the account id alone, so a later row of the batch with the same account *)
(* id (another asset id, or none) overwrites the entry.                    *)
(***************************************************************************)
C28_OwnResultsUsed ==
    [][(pc = "Phase3" /\ IsValidRow(row)) =>
          LET used_value == Get(eligibility_results, AccountId(row))
              used_history == Get(claims_history_results, AccountId(row))
          IN  /\ Key(row) \in DOMAIN remote_eligibility
              /\ used_value = remote_eligibility[Key(row)]
              /\ remote_eligibility[Key(row)] # None =>
                    /\ Key(row) \in DOMAIN remote_history
                    /\ used_history = remote_history[Key(row)]
      ]_vars

(***************************************************************************)
(* C29.  At every batch boundary (from the flush of a batch to the start   *)
(* of the next one, or to the summary) the counters agree with the         *)
(* accumulated rows: total_processed = total_eligible + total_unclaimable  *)
(* = the number of rows in all_updated_data, and total_already_claimed +   *)
(* total_claimed <= total_eligible.                                        *)
(***************************************************************************)
C29_CountersMatchRows ==
    pc \in {"Throttle4", "Delay", "Throttle1", "Summary", "Completed"} =>
        /\ total_processed = total_eligible + total_unclaimable
        /\ total_processed = Len(all_updated_data)
        /\ total_eligible =
               Cardinality({m \in 1..Len(all_updated_data) :
                               all_updated_data[m].eligibility_status = "Eligible"})
        /\ total_already_claimed + total_claimed <= total_eligible

\* right after the flush of a batch of the first loop that made an
\* unclaimable row and a claimed one, a skipped row in the input
C29_Witness ==
    /\ pc = "Throttle4"
    /\ loop = 1
    /\ total_unclaimable > 0
    /\ total_claimed > 0
    /\ total_processed < Len(all_rows)
    /\ i + batch_size >= Len(all_rows)

(***************************************************************************)
(* C30.  Every row written to the output file has Eligibility Status       *)
(* Eligible or Unclaimable and Claim Status one of Skipped, Error Checking *)
(* Claims, Already Claimed, Claimed Successfully, Claim Failed (never the  *)
(* initial "Unknown" or "Not Processed"); its Claim Status is Skipped      *)
(* exactly when it is Unclaimable; and its Claim Result is the dumped      *)
(* payload exactly when its Claim Status is Claimed Successfully.          *)
(***************************************************************************)
C30_SinkRowsWellFormed ==
    output_file # None =>
        \A m \in 1..Len(output_file.val) :
            LET r == output_file.val[m]
            IN  /\ r.eligibility_status \in {"Eligible", "Unclaimable"}
                /\ r.claim_status \in
                       {"Skipped", "Error Checking Claims", "Already Claimed",
                        "Claimed Successfully", "Claim Failed"}
                /\ r.claim_status = "Skipped" <=> r.eligibility_status = "Unclaimable"
                /\ r.claim_result.kind = "json" <=> r.claim_status = "Claimed Successfully"
                /\ r.claim_result.kind = "json" => Truthy(r.claim_result.json)
                /\ r.claim_result.kind = "text" =>
                       r.claim_result.text =
                           IF r.claim_status = "Claim Failed"
                           THEN "Failed to process claim" ELSE "N/A"

\* the output file holds a skipped row, a claimed row and a row whose claim
\* failed
C30_Witness ==
    /\ output_file # None
    /\ {"Skipped", "Claimed Successfully", "Claim Failed"} \subseteq Statuses(output_file.val)

\* a field of a result row is the record's field, as read or stripped
CopyOf(field) == {field, Strip(field)}

(***************************************************************************)
(* C31.  A result row copies the record's account id, account name and     *)
(* asset id (as read, or stripped of surrounding whitespace); its          *)
(* Claimable Amount is the value the eligibility check returned for the    *)
(* record when the row is Eligible, and the record's own Claimable Amount  *)
(* when the row is Unclaimable.                                            *)
(* Violated: an Eligible row carries whatever value is stored under its    *)
(* account id, which can be the value of another row of the batch (C28)    *)
(* while the record's own check returned none.                             *)
(***************************************************************************)
C31_RowCopiesRecord ==
    [][(pc = "Phase3" /\ Len(batch_data') = Len(batch_data) + 1) =>
          LET emitted == Last(batch_data')
              own_value == remote_eligibility[Key(row)]
          IN  /\ emitted.id \in CopyOf(row.id)
              /\ emitted.name \in CopyOf(row.name)
              /\ emitted.chain \in CopyOf(row.chain)
              /\ emitted.eligibility_status = "Eligible" =>
                    /\ own_value # None
                    /\ emitted.amount = FloatStr(own_value.val)
              /\ emitted.eligibility_status = "Unclaimable" =>
                    emitted.amount \in CopyOf(row.amount)
      ]_vars

(***************************************************************************)
(* sygscripts/allocation_checker.py: the allocation run                    *)
(* process_accounts_csv.  It has one batch loop with one sweep, and its    *)
(* own copies of get_pool_metrics, clear_pool and                          *)
(* check_and_clear_pool_if_needed (lines 45-120), the same statement for   *)
(* statement as those of claims_processor.py.  The run keeps its calls of  *)
(* check_address_allocation in eligibility_calls and the service's         *)
(* answers to /api/check in remote_eligibility.                            *)
(***************************************************************************)

\* check_address_allocation: float(value) of a 200 answer with a value, else 0.0
check_address_allocation(resp) ==
    IF resp.kind # "response" THEN 0
    ELSE IF resp.status # 200 THEN 0
    ELSE IF resp.body.t = "bad" THEN 0
    ELSE IF "value" \in resp.body.fields /\ resp.body.value.t # "null"
         THEN resp.body.value.n
         ELSE 0

\* what one call of check_address_allocation can return
AllocationOutcomes ==
    {check_address_allocation(resp) :
        resp \in {r \in EligibilityResponses : ~HandlerRaises(r)}}

\* lines 29-31: the HTTPError handler decodes the error body
AllocationRaises == \E resp \in EligibilityResponses : HandlerRaises(resp)

\* lines 159, 237-238: the statement after the loop head, and after a batch
AccountsAfterLoopHead(rows) ==
    IF batch_size = 0 THEN "ValueError"
    ELSE IF batch_size > 0 /\ Len(rows) > 0 THEN "AccountsThrottle1"
    ELSE "AccountsSummary"

\* lines 145-156: read all rows, then keep the first max_rows of them
AccountsReadRows ==
    /\ pc = "Idle"
    /\ all_rows' = Limited(input_file, max_rows)
    /\ pc' = AccountsAfterLoopHead(Limited(input_file, max_rows))
    /\ eligibility_calls' = [n \in 1..Len(input_file) |-> 0]
    /\ check_result' = None
    /\ UNCHANGED <<input_file, batch_size, max_rows, runs, crashed_at, recovery_point,
                   client_call, client_result, accounts_vars, steps, loop, i, j,
                   batch_vars, total_vars, remote_vars, history_calls, claim_calls,
                   batches>>

\* lines 160-174: batch start, pressure check at 80%
AccountsThrottle1 ==
    /\ pc = "AccountsThrottle1"
    /\ \E pool_cleared \in PressureOutcomes80 :
              /\ pc' = IF pool_cleared.raised THEN "Aborted"
                       ELSE IF pool_cleared.value THEN "AccountsSettle1"
                       ELSE "AccountsSweep"
              /\ check_result' = IF pool_cleared.raised THEN None
                                 ELSE Some(pool_cleared.value)
    /\ batch_data' = <<>>
    /\ batch_processed' = 0
    /\ batch_success' = 0
    /\ batch_error' = 0
    /\ j' = 1
    /\ batches' = Append(batches, [from |-> i, to |-> Min(i + batch_size, Len(all_rows))])
    /\ UNCHANGED <<input_file, batch_size, max_rows, runs, crashed_at, recovery_point,
                   client_call, client_result, total_success, total_error, steps,
                   all_rows, loop, i, eligibility_results, claims_history_results,
                   total_vars, remote_vars, call_vars>>

\* lines 168-170: time.sleep(2) after a clear
AccountsSettle1 ==
    /\ pc = "AccountsSettle1"
    /\ pc' = "AccountsSweep"
    /\ check_result' = None
    /\ UNCHANGED <<fixed_vars, steps, all_rows, loop, i, j, batch_vars, total_vars,
                   remote_vars, call_vars, batches>>

\* lines 177-184: a row with no account id or no asset id
AccountsSkip ==
    /\ pc = "AccountsSweep"
    /\ ~IsValidRow(row)
    /\ Advance("AccountsFlush")
    /\ check_result' = None
    /\ UNCHANGED <<fixed_vars, steps, all_rows, loop, i, batch_vars, total_vars,
                   remote_vars, call_vars, batches>>

\* lines 190-197: updated_row
UpdatedAccountRow(r, allocation_value) ==
    [id |-> AccountId(r), name |-> Strip(r.name), chain |-> AssetId(r),
     amount |-> IF allocation_value > 0 THEN FloatStr(allocation_value)
                ELSE Strip(r.amount),
     original |-> Strip(r.amount),
     result |-> IF allocation_value > 0 THEN "Success" ELSE "Failed/Using Original"]

\* lines 186-208: the allocation check of a row and its result row
AccountsCheck ==
    /\ pc = "AccountsSweep"
    /\ IsValidRow(row)
    /\ \E allocation_value \in AllocationOutcomes :
          /\ Answers(remote_eligibility, Key(row), allocation_value)
          /\ remote_eligibility' = Put(remote_eligibility, Key(row), allocation_value)
          /\ batch_data' = Append(batch_data, UpdatedAccountRow(row, allocation_value))
          /\ batch_success' = IF allocation_value > 0 THEN batch_success + 1
                              ELSE batch_success
          /\ batch_error' = IF allocation_value > 0 THEN batch_error
                            ELSE batch_error + 1
    /\ batch_processed' = batch_processed + 1
    /\ eligibility_calls' = [eligibility_calls EXCEPT ![row_index] = @ + 1]
    /\ Advance("AccountsFlush")
    /\ check_result' = None
    /\ UNCHANGED <<input_file, batch_size, max_rows, runs, crashed_at, recovery_point,
                   client_call, client_result, total_success, total_error, steps,
                   all_rows, loop, i, eligibility_results, claims_history_results,
                   total_vars, remote_history, remote_claim, history_calls, claim_calls,
                   batches>>

\* line 187: check_address_allocation raises; nothing in process_accounts_csv
\* catches it
AccountsRaise ==
    /\ pc = "AccountsSweep"
    /\ IsValidRow(row)
    /\ Key(row) \notin DOMAIN remote_eligibility
    /\ AllocationRaises
    /\ pc' = "Aborted"
    /\ eligibility_calls' = [eligibility_calls EXCEPT ![row_index] = @ + 1]
    /\ check_result' = None
    /\ UNCHANGED <<fixed_vars, steps, all_rows, loop, i, j, batch_vars, total_vars,
                   remote_vars, history_calls, claim_calls, batches>>

\* lines 210-230: the batch's rows join all_updated_data, the batch's
\* counters join the totals, and the output file is rewritten
AccountsFlush ==
    /\ pc = "AccountsFlush"
    /\ all_updated_data' = all_updated_data \o batch_data
    /\ total_processed' = total_processed + batch_processed
    /\ total_success' = total_success + batch_success
    /\ total_error' = total_error + batch_error
    /\ output_file' = WriteOutput(output_file, all_updated_data')
    /\ pc' = "AccountsThrottle2"
    /\ check_result' = None
    /\ UNCHANGED <<input_file, batch_size, max_rows, runs, crashed_at, recovery_point,
                   client_call, client_result, batch_success, batch_error, steps,
                   all_rows, loop, i, j, batch_vars, total_eligible,
                   total_already_claimed, total_claimed, total_unclaimable, batch_number,
                   remote_vars, call_vars, batches>>

\* lines 232-238: pressure check at 50%, then break after the last batch
AccountsThrottle2 ==
    /\ pc = "AccountsThrottle2"
    /\ \E cleared \in PressureOutcomes50 :
              /\ check_result' = IF cleared.raised THEN None ELSE Some(cleared.value)
              /\ pc' = IF cleared.raised THEN "Aborted"
                       ELSE IF i + batch_size >= Len(all_rows) THEN "AccountsSummary"
                       ELSE "AccountsDelay"
    /\ UNCHANGED <<fixed_vars, steps, all_rows, loop, i, j, batch_vars, total_vars,
                   remote_vars, call_vars, batches>>

\* lines 240-243: time.sleep(batch_delay), then the next batch
AccountsDelay ==
    /\ pc = "AccountsDelay"
    /\ batch_number' = batch_number + 1
    /\ i' = i + batch_size
    /\ pc' = "AccountsThrottle1"
    /\ check_result' = None
    /\ UNCHANGED <<fixed_vars, steps, all_rows, loop, j, batch_vars,
                   all_updated_data, output_file, total_processed, total_eligible,
                   total_already_claimed, total_claimed, total_unclaimable, remote_vars,
                   call_vars, batches>>

\* lines 245-253: the final summary
AccountsSummary ==
    /\ pc = "AccountsSummary"
    /\ pc' = "Completed"
    /\ check_result' = None
    /\ UNCHANGED <<fixed_vars, steps, all_rows, loop, i, j, batch_vars, total_vars,
                   remote_vars, call_vars, batches>>

NextAccounts ==
    \/ AccountsReadRows
    \/ AccountsThrottle1
    \/ AccountsSettle1
    \/ AccountsSkip
    \/ AccountsCheck
    \/ AccountsRaise
    \/ AccountsFlush
    \/ AccountsThrottle2
    \/ AccountsDelay
    \/ AccountsSummary

SpecAccounts == Init /\ [][NextAccounts]_vars

\* the rows of the allocation run are the rows of the first valid records,
\* in input order, each a success exactly when its allocation is above 0
AccountsRowsAsClaimed(rows) ==
    LET valid == SelectSeq(all_rows, IsValidRow)
    IN  /\ Len(rows) <= Len(valid)
        /\ \A m \in 1..Len(rows) :
              LET r == valid[m]
                  allocation_value == remote_eligibility[Key(r)]
              IN  /\ Key(r) \in DOMAIN remote_eligibility
                  /\ rows[m].id = AccountId(r)
                  /\ rows[m].chain = AssetId(r)
                  /\ rows[m].result = "Success" <=> allocation_value > 0
                  /\ rows[m].result \in {"Success", "Failed/Using Original"}
                  /\ rows[m].amount = IF allocation_value > 0
                                      THEN FloatStr(allocation_value)
                                      ELSE Strip(r.amount)

\* the rows in the output file; none while no file is written
RowsWritten == IF output_file = None THEN <<>> ELSE output_file.val

\* every valid record checked once and given one row, and the counters of
\* the summary
AccountsRunAsClaimed ==
    /\ \A n \in 1..Len(all_rows) :
          eligibility_calls[n] = IF IsValidRow(all_rows[n]) THEN 1 ELSE 0
    /\ RowsWritten = all_updated_data
    /\ Len(all_updated_data) = Len(SelectSeq(all_rows, IsValidRow))
    /\ AccountsRowsAsClaimed(all_updated_data)
    /\ total_processed = total_success + total_error
    /\ total_processed = Len(all_updated_data)
    /\ total_success =
           Cardinality({m \in 1..Len(all_updated_data) :
                           all_updated_data[m].result = "Success"})

\* what holds of the allocation run while it is under way: no record is
\* checked twice, and after each flush the file holds the rows made so far
AccountsRunSoFar ==
    /\ \A n \in DOMAIN eligibility_calls : eligibility_calls[n] <= 1
    /\ output_file # None =>
          /\ IsPrefix(output_file.val, all_updated_data)
          /\ AccountsRowsAsClaimed(output_file.val)

(***************************************************************************)
(* C32.  In the allocation run, for every input and batch_size > 0, each   *)
(* record with an account id and an asset id is checked exactly once and   *)
(* has exactly one row, the rows are in the output file in input order     *)
(* after each flush, a row is a success exactly when the allocation        *)
(* returned for it is above 0 (else it keeps the original amount and is    *)
(* counted as failed), and when the run has ended total_processed =        *)
(* total_success + total_error = the number of rows written.               *)
(* Violated: the run can end in an exception, with records never checked   *)
(* and no row for them: check_and_clear_pool_if_needed raises on a         *)
(* /metrics body that is no mapping or has no numeric totalInstances (as   *)
(* in C25), and check_address_allocation raises out of its HTTPError       *)
(* handler (as in C18).                                                    *)
(***************************************************************************)
C32_AllocationRun ==
    /\ AccountsRunSoFar
    /\ pc \in {"Completed", "Aborted"} => AccountsRunAsClaimed

\* C32 for the runs that reach the summary: these are as claimed
C32_CompletedRunAsClaimed ==
    /\ AccountsRunSoFar
    /\ pc = "Completed" => AccountsRunAsClaimed

====
